---------------------------- MODULE Spec2Model ----------------------------
(***************************************************************************)
(* A model of the cryptographic core of xg-safl (src/xg-safl/src/crypto):  *)
(* the adaptive precision codec (encoding.py), integer secret sharing      *)
(* (iss.py), the Threshold Joye-Libert scheme (tjl.py) and the modular     *)
(* arithmetic utilities (utils.py).                                        *)
(*                                                                         *)
(* The library is a set of pure functions.  Each function is an operator   *)
(* computed the way the code computes it (Python's floor division and      *)
(* sign-of-divisor modulo, shifts as multiplications by powers of two),    *)
(* and each component has a small state machine whose initial states draw  *)
(* the inputs and whose actions call the functions in the order the        *)
(* protocol calls them.  A raised exception is a result whose err field    *)
(* names the exception.                                                    *)
(***************************************************************************)
EXTENDS Integers, Sequences, FiniteSets, TLC

VARIABLES codec, prec, iss, rec, tjl, thr, dlog, comb, quant, srch

vars == <<codec, prec, iss, rec, tjl, thr, dlog, comb, quant, srch>>

(***************************************************************************)
(* Python integer arithmetic                                               *)
(***************************************************************************)

\* Python's a // b: floor division, for a divisor of either sign.
PyFloorDiv(a, b) == IF b > 0 THEN a \div b ELSE (-a) \div (-b)

\* Python's a % b: the result has the sign of the divisor.
PyMod(a, b) == IF b > 0 THEN a % b ELSE -((-a) % (-b))

\* 1 << k, for k >= 0.
RECURSIVE Pow2(_)
Pow2(k) == IF k <= 0 THEN 1 ELSE 2 * Pow2(k - 1)

\* Python's pow(base, exp, mod) for exp >= 0 and mod >= 1.
RECURSIVE PowMod(_, _, _)
PowMod(base, exp, mod) ==
    IF exp <= 0 THEN 1 % mod ELSE (base * PowMod(base, exp - 1, mod)) % mod

Abs(a) == IF a < 0 THEN -a ELSE a

Max2(a, b) == IF a >= b THEN a ELSE b

Min2(a, b) == IF a <= b THEN a ELSE b

\* A returned value and a raised exception, as results of one shape.
Ok(v) == [err |-> "none", val |-> v]

Raise(e) == [err |-> e, val |-> 0]

RECURSIVE SumSeq(_)
SumSeq(s) == IF s = <<>> THEN 0 ELSE Head(s) + SumSeq(Tail(s))

\* s[:k]
Take(s, k) == SubSeq(s, 1, Min2(k, Len(s)))

(***************************************************************************)
(* utils.py: mod_pow, mod_inv, _extended_gcd, discrete_log_brute           *)
(***************************************************************************)

\* _extended_gcd(a, b) for a >= 0: <<gcd, x, y>> with a*x + b*y = gcd.
RECURSIVE extended_gcd(_, _)
extended_gcd(a, b) ==
    IF a = 0 THEN <<b, 0, 1>>
    ELSE LET r == extended_gcd(b % a, a)
         IN  <<r[1], r[3] - (b \div a) * r[2], r[2]>>

mod_inv(a, mod) ==
    IF mod < 2 THEN Raise("ValueError")
    ELSE LET e == extended_gcd(a % mod, mod)
         IN  IF e[1] # 1 THEN Raise("ValueError") ELSE Ok(e[2] % mod)

\* mod_pow raising to the absolute value of a negative exponent, without
\* inverting the base.
mod_pow_NoInverse(base, exp, mod) ==
    IF mod <= 0 THEN Raise("ValueError")
    ELSE Ok(PowMod(base, Abs(exp), mod))

mod_pow(base, exp, mod) ==
    IF mod <= 0 THEN Raise("ValueError")
    ELSE IF exp < 0
         THEN LET inv == mod_inv(base, mod)
              IN  IF inv.err # "none" THEN inv
                  ELSE Ok(PowMod(inv.val, -exp, mod))
         ELSE Ok(PowMod(base, exp, mod))

\* One search loop of discrete_log_brute (lines 155-158 and 163-166): x
\* runs from its first value to max_val, acc is step^x on entry.
RECURSIVE DlogLoop(_, _, _, _, _, _)
DlogLoop(acc, step, target, modulus, x, max_val) ==
    IF x > max_val THEN [found |-> FALSE, x |-> 0]
    ELSE IF acc = target THEN [found |-> TRUE, x |-> x]
    ELSE DlogLoop((acc * step) % modulus, step, target, modulus, x + 1, max_val)

\* discrete_log_brute returning x, not -x, from the negative range.
discrete_log_brute_Unsigned(target_in, base, modulus, max_val) ==
    LET target == target_in % modulus
        pos == DlogLoop(1, base, target, modulus, 0, max_val)
    IN  IF pos.found THEN Ok(pos.x)
        ELSE LET inv_base == mod_inv(base, modulus)
             IN  IF inv_base.err # "none" THEN inv_base
                 ELSE LET neg == DlogLoop(inv_base.val, inv_base.val, target,
                                          modulus, 1, max_val)
                      IN  IF neg.found THEN Ok(neg.x)
                          ELSE Raise("ValueError")

\* discrete_log_brute searching the negative range only down to
\* -(max_val - 1).
discrete_log_brute_ShortRange(target_in, base, modulus, max_val) ==
    LET target == target_in % modulus
        pos == DlogLoop(1, base, target, modulus, 0, max_val)
    IN  IF pos.found THEN Ok(pos.x)
        ELSE LET inv_base == mod_inv(base, modulus)
             IN  IF inv_base.err # "none" THEN inv_base
                 ELSE LET neg == DlogLoop(inv_base.val, inv_base.val, target,
                                          modulus, 1, max_val - 1)
                      IN  IF neg.found THEN Ok(-neg.x)
                          ELSE Raise("ValueError")

discrete_log_brute(target_in, base, modulus, max_val) ==
    LET target == target_in % modulus
        pos == DlogLoop(1, base, target, modulus, 0, max_val)
    IN  IF pos.found THEN Ok(pos.x)
        ELSE LET inv_base == mod_inv(base, modulus)
             IN  IF inv_base.err # "none" THEN inv_base
                 ELSE LET neg == DlogLoop(inv_base.val, inv_base.val, target,
                                          modulus, 1, max_val)
                      IN  IF neg.found THEN Ok(-neg.x)
                          ELSE Raise("ValueError")

\* The raise statement that ends a call of discrete_log_brute: "mod_inv"
\* for the ValueError of mod_inv called at line 161 (raised at line 106),
\* "not_found" for the ValueError of line 168, "none" when the call returns.
discrete_log_raise(target_in, base, modulus, max_val) ==
    LET target == target_in % modulus
        pos == DlogLoop(1, base, target, modulus, 0, max_val)
    IN  IF pos.found THEN "none"
        ELSE LET inv_base == mod_inv(base, modulus)
             IN  IF inv_base.err # "none" THEN "mod_inv"
                 ELSE LET neg == DlogLoop(inv_base.val, inv_base.val, target,
                                          modulus, 1, max_val)
                      IN  IF neg.found THEN "none" ELSE "not_found"

(***************************************************************************)
(* encoding.py: pack_vector and unpack_vector                              *)
(***************************************************************************)

\* The loop of pack_vector (lines 144-152) over the first i values:
\* stream = (stream << bw) | (int(v) & mask), total_bits += bw.
RECURSIVE PackStream(_, _, _)
PackStream(values, bit_widths, i) ==
    IF i = 0 THEN [stream |-> 0, total_bits |-> 0]
    ELSE LET prev == PackStream(values, bit_widths, i - 1)
             bw == bit_widths[i]
             encoded == values[i] % Pow2(bw)
         IN  [stream |-> prev.stream * Pow2(bw) + encoded,
              total_bits |-> prev.total_bits + bw]

\* pack_vector with the chunks taken from the least significant end first.
pack_vector_LittleEndian(values, bit_widths, chunk_bits) ==
    IF Len(values) # Len(bit_widths) THEN Raise("ValueError")
    ELSE LET packed == PackStream(values, bit_widths, Len(values))
             num_chunks == (packed.total_bits + chunk_bits - 1) \div chunk_bits
             pad == num_chunks * chunk_bits - packed.total_bits
             stream == packed.stream * Pow2(pad)
         IN  Ok([k \in 1..num_chunks |->
                    (stream \div Pow2((k - 1) * chunk_bits))
                        % Pow2(chunk_bits)])

pack_vector(values, bit_widths, chunk_bits) ==
    IF Len(values) # Len(bit_widths) THEN Raise("ValueError")
    ELSE LET packed == PackStream(values, bit_widths, Len(values))
             num_chunks == (packed.total_bits + chunk_bits - 1) \div chunk_bits
             pad == num_chunks * chunk_bits - packed.total_bits
             stream == packed.stream * Pow2(pad)
         IN  Ok([k \in 1..num_chunks |->
                    (stream \div Pow2((num_chunks - k) * chunk_bits))
                        % Pow2(chunk_bits)])

\* The loop of unpack_vector (lines 199-201): stream = (stream << cb) | c.
RECURSIVE UnpackStream(_, _, _)
UnpackStream(chunks, chunk_bits, i) ==
    IF i = 0 THEN 0
    ELSE UnpackStream(chunks, chunk_bits, i - 1) * Pow2(chunk_bits) + chunks[i]

\* The loop of unpack_vector (lines 211-220), from element n down to
\* element i: the fields are taken from the least significant end.
RECURSIVE UnpackFields(_, _, _, _)
UnpackFields(stream, bit_widths, i, n) ==
    IF i > n THEN [stream |-> stream, result |-> <<>>]
    ELSE LET later == UnpackFields(stream, bit_widths, i + 1, n)
             bw == bit_widths[i]
             encoded == later.stream % Pow2(bw)
             decoded == IF encoded >= Pow2(bw - 1)
                        THEN encoded - Pow2(bw) ELSE encoded
         IN  [stream |-> later.stream \div Pow2(bw),
              result |-> <<decoded>> \o later.result]

\* unpack_vector without the removal of the right padding (line 208).
unpack_vector_KeepPad(chunks, bit_widths, chunk_bits, length) ==
    IF chunks = <<>> THEN Raise("ValueError")
    ELSE LET n == IF length > 0 THEN length ELSE Len(bit_widths)
         IN  IF n = 0 THEN Raise("ValueError")
             ELSE IF n > Len(bit_widths) THEN Raise("IndexError")
             ELSE Ok(UnpackFields(
                       UnpackStream(chunks, chunk_bits, Len(chunks)),
                       bit_widths, 1, n).result)

unpack_vector(chunks, bit_widths, chunk_bits, length) ==
    IF chunks = <<>> THEN Raise("ValueError")
    ELSE LET n == IF length > 0 THEN length ELSE Len(bit_widths)
         IN  IF n = 0 THEN Raise("ValueError")
             ELSE IF n > Len(bit_widths) THEN Raise("IndexError")
             ELSE LET total_packed == Len(chunks) * chunk_bits
                      total_bits == SumSeq(Take(bit_widths, n))
                      pad == total_packed - total_bits
                  IN  IF pad < 0 THEN Raise("ValueError")
                      ELSE Ok(UnpackFields(
                                UnpackStream(chunks, chunk_bits, Len(chunks))
                                    \div Pow2(pad),
                                bit_widths, 1, n).result)

(***************************************************************************)
(* The codec's state machine: an update vector is packed, then unpacked    *)
(* with the same bit-width map, chunk width and length.                    *)
(***************************************************************************)

MaxLen == 2
MaxBw == 4
MaxChunk == 8

\* The values tried at a width: the ends of its two's-complement range, the
\* values around zero, and the first value above the range.
BoundaryValues(bw) ==
    {-Pow2(bw - 1), -1, 0, 1, Pow2(bw - 1) - 1, Pow2(bw - 1)}

InRange(v, bw) == -Pow2(bw - 1) <= v /\ v <= Pow2(bw - 1) - 1

CodecIdle ==
    [phase |-> "idle", values |-> <<>>, bit_widths |-> <<>>, chunk_bits |-> 1,
     chunks |-> Ok(<<>>), unpacked |-> Ok(<<>>)]

\* Scenario C of the specification: values [3, -1] at widths [4, 4] in one
\* 8-bit chunk.
ScenarioC ==
    [CodecIdle EXCEPT !.phase = "input", !.values = <<3, -1>>,
                      !.bit_widths = <<4, 4>>, !.chunk_bits = 8]

CodecInit ==
    \/ \E len \in 0..MaxLen :
         \E bws \in [1..len -> 1..MaxBw] :
           \E vs \in [1..len -> UNION {BoundaryValues(b) : b \in 1..MaxBw}] :
             \E cb \in 1..MaxChunk :
               /\ \A i \in 1..len : vs[i] \in BoundaryValues(bws[i])
               /\ codec = [CodecIdle EXCEPT
                             !.phase = "input", !.values = vs,
                             !.bit_widths = bws, !.chunk_bits = cb]
    \/ codec = ScenarioC

Pack ==
    /\ codec.phase = "input"
    /\ codec' = [codec EXCEPT
                   !.phase = "packed",
                   !.chunks = pack_vector(codec.values, codec.bit_widths,
                                          codec.chunk_bits)]
    /\ UNCHANGED <<prec, iss, rec, tjl, thr, dlog,
                 comb, quant, srch>>

Unpack ==
    /\ codec.phase = "packed"
    /\ codec.chunks.err = "none"
    /\ codec' = [codec EXCEPT
                   !.phase = "unpacked",
                   !.unpacked = unpack_vector(codec.chunks.val, codec.bit_widths,
                                              codec.chunk_bits, Len(codec.values))]
    /\ UNCHANGED <<prec, iss, rec, tjl, thr, dlog,
                 comb, quant, srch>>


(***************************************************************************)
(* Claims about the codec                                                  *)
(***************************************************************************)

ValuesInRange ==
    \A i \in 1..Len(codec.values) : InRange(codec.values[i], codec.bit_widths[i])

ChunkCoversWidths ==
    \A i \in 1..Len(codec.bit_widths) : codec.chunk_bits >= codec.bit_widths[i]

\* C1 as stated: for values of any length, each within the two's-complement
\* range of its width, and a chunk width of at least every bit width,
\* unpacking the packed chunks returns exactly the values.
C1_RoundTripAnyLength ==
    (codec.phase = "unpacked" /\ ValuesInRange /\ ChunkCoversWidths)
        => codec.unpacked = Ok(codec.values)

\* C1 as amended: the same for a non-empty array of values (unpack_vector
\* raises on the empty chunk list that packing an empty array returns).
C1_RoundTrip ==
    (codec.phase = "unpacked" /\ Len(codec.values) >= 1
        /\ ValuesInRange /\ ChunkCoversWidths)
        => codec.unpacked = Ok(codec.values)

\* Two values that fill two chunks with right padding came back unchanged.
C1_Witness ==
    /\ codec.phase = "unpacked"
    /\ codec.values = <<-8, 7>>
    /\ codec.bit_widths = <<4, 4>>
    /\ codec.chunk_bits = 5
    /\ Len(codec.chunks.val) = 2
    /\ codec.unpacked = Ok(<<-8, 7>>)

\* Bit k (k = 0 the least significant) of the two's-complement form of v.
BitOf(v, k) == (v \div Pow2(k)) % 2

\* The bw bits of v's two's-complement encoding, most significant first.
ValueBits(v, bw) == [i \in 1..bw |-> BitOf(v, bw - i)]

RECURSIVE ConcatValueBits(_, _, _)
ConcatValueBits(values, bit_widths, i) ==
    IF i = 0 THEN <<>>
    ELSE ConcatValueBits(values, bit_widths, i - 1)
            \o ValueBits(values[i], bit_widths[i])

RECURSIVE ConcatChunkBits(_, _, _)
ConcatChunkBits(chunks, chunk_bits, i) ==
    IF i = 0 THEN <<>>
    ELSE ConcatChunkBits(chunks, chunk_bits, i - 1)
            \o [j \in 1..chunk_bits |-> BitOf(chunks[i], chunk_bits - j)]

\* ceil(a / b) for a >= 0 and b >= 1: the least m with m * b >= a.
CeilDiv(a, b) == CHOOSE m \in 0..a : m * b >= a /\ (m = 0 \/ (m - 1) * b < a)

Zeros(k) == [i \in 1..k |-> 0]

\* C8: pack_vector returns ceil(sum(bit_widths) / chunk_bits) chunks, each
\* in [0, 2^chunk_bits), and the chunks' bits, most significant chunk
\* first, are the values' two's-complement encodings at their widths in
\* order, followed by zero bits.
C8_ChunkFormat ==
    codec.phase \in {"packed", "unpacked"} =>
        LET total == SumSeq(codec.bit_widths)
            count == CeilDiv(total, codec.chunk_bits)
            chunks == codec.chunks.val
        IN  /\ codec.chunks.err = "none"
            /\ Len(chunks) = count
            /\ \A k \in 1..Len(chunks) :
                  0 <= chunks[k] /\ chunks[k] < Pow2(codec.chunk_bits)
            /\ ConcatChunkBits(chunks, codec.chunk_bits, Len(chunks))
                 = ConcatValueBits(codec.values, codec.bit_widths,
                                   Len(codec.values))
                     \o Zeros(count * codec.chunk_bits - total)

\* Scenario C: [3, -1] at widths [4, 4] packed into the single chunk 63.
C8_Witness ==
    /\ codec.phase = "packed"
    /\ codec.values = <<3, -1>>
    /\ codec.bit_widths = <<4, 4>>
    /\ codec.chunk_bits = 8
    /\ codec.chunks = Ok(<<63>>)

(***************************************************************************)
(* encoding.py: adaptive_precision_map                                     *)
(*                                                                         *)
(* Importance scores are integers (only their absolute values and their    *)
(* order are read), and k_ratio is the rational k_num / k_den.             *)
(***************************************************************************)

DefaultHighBits == 24
DefaultMidBits == 16
DefaultLowBits == 8

\* mid_ratio = 0.3 (line 52), as MidRatioNum / MidRatioDen.
MidRatioNum == 3
MidRatioDen == 10

\* int(np.ceil(n * ratio)) for the ratio num / den, den > 0.
CeilOfProduct(n, num, den) == -((-(n * num)) \div den)

\* The results np.argsort(-np.abs(importance)) can return: every order of
\* the indices by descending absolute importance (the default sort is not
\* stable, so equal scores come in any order).
Rankings(importance) ==
    {r \in [1..Len(importance) -> 1..Len(importance)] :
        /\ \A a, b \in 1..Len(importance) : a # b => r[a] # r[b]
        /\ \A a, b \in 1..Len(importance) :
              a < b => Abs(importance[r[a]]) >= Abs(importance[r[b]])}

\* adaptive_precision_map with the top tier sized by floor instead of ceil.
adaptive_precision_map_Floor(importance, ranked_indices, k_num, k_den, high_bits, mid_bits, low_bits) ==
    IF Len(importance) = 0 THEN Raise("ValueError")
    ELSE IF ~(0 < k_num /\ k_num < k_den) THEN Raise("ValueError")
    ELSE LET n == Len(importance)
             top_count == Max2(1, (n * k_num) \div k_den)
             mid_count == Max2(1, CeilOfProduct(n, MidRatioNum, MidRatioDen))
             mid_end == Min2(top_count + mid_count, n)
             top == {ranked_indices[a] : a \in 1..top_count}
             mid == {ranked_indices[a] : a \in (top_count + 1)..mid_end}
         IN  Ok([i \in 1..n |->
                    IF i \in mid THEN mid_bits
                    ELSE IF i \in top THEN high_bits ELSE low_bits])

\* ranked_indices is the result of the argsort of line 49.  The two slice
\* assignments of lines 56 and 58 are applied in order, the later one
\* winning where both write.
adaptive_precision_map(importance, ranked_indices, k_num, k_den, high_bits, mid_bits, low_bits) ==
    IF Len(importance) = 0 THEN Raise("ValueError")
    ELSE IF ~(0 < k_num /\ k_num < k_den) THEN Raise("ValueError")
    ELSE LET n == Len(importance)
             top_count == Max2(1, CeilOfProduct(n, k_num, k_den))
             mid_count == Max2(1, CeilOfProduct(n, MidRatioNum, MidRatioDen))
             mid_end == Min2(top_count + mid_count, n)
             top == {ranked_indices[a] : a \in 1..Min2(top_count, n)}
             mid == {ranked_indices[a] : a \in (top_count + 1)..mid_end}
         IN  Ok([i \in 1..n |->
                    IF i \in mid THEN mid_bits
                    ELSE IF i \in top THEN high_bits ELSE low_bits])

MaxFeatures == 3
MaxImp == 2
KDen == 10

PrecIdle ==
    [phase |-> "idle", importance |-> <<>>, k_num |-> 1, k_den |-> 2,
     ranked_indices |-> <<>>, bit_widths |-> Ok(<<>>)]

\* Scenario B of the specification: importance [0.9, 0.1, 0.5, 0.05, 0.7]
\* (in hundredths) with k_ratio 0.2.
ScenarioB ==
    [PrecIdle EXCEPT !.phase = "input", !.importance = <<90, 10, 50, 5, 70>>,
                     !.k_num = 1, !.k_den = 5]

PrecInit ==
    \/ \E n \in 0..MaxFeatures :
         \E imp \in [1..n -> (-MaxImp)..MaxImp] :
           \E k \in 0..KDen :
             prec = [PrecIdle EXCEPT !.phase = "input", !.importance = imp,
                                     !.k_num = k, !.k_den = KDen]
    \/ prec = ScenarioB

MapPrecision ==
    /\ prec.phase = "input"
    /\ \E r \in Rankings(prec.importance) :
         prec' = [prec EXCEPT
                    !.phase = "mapped",
                    !.ranked_indices = r,
                    !.bit_widths = adaptive_precision_map(
                        prec.importance, r, prec.k_num, prec.k_den,
                        DefaultHighBits, DefaultMidBits, DefaultLowBits)]
    /\ UNCHANGED <<codec, iss, rec, tjl, thr, dlog,
                 comb, quant, srch>>

NoPrime == 0

\* Python's round(a / b), b # 0: the nearest integer, a tie going to the
\* even one.
RoundHalfEven(a, b) ==
    LET q == PyFloorDiv(a, b)
        r == Abs(a - q * b)
    IN  IF 2 * r < Abs(b) THEN q
        ELSE IF 2 * r > Abs(b) THEN q + 1
        ELSE IF q % 2 = 0 THEN q ELSE q + 1

\* The loop of _lagrange_basis (lines 44-52) over the first m shares.
RECURSIVE LagrangeLoop(_, _, _)
LagrangeLoop(shares, j, m) ==
    IF m = 0 THEN [err |-> "none", num |-> 1, den |-> 1]
    ELSE LET prev == LagrangeLoop(shares, j, m - 1)
             x_j == shares[j][1]
             x_m == shares[m][1]
         IN  IF prev.err # "none" \/ m = j THEN prev
             ELSE IF x_m = x_j THEN [err |-> "ValueError", num |-> 0, den |-> 0]
             ELSE [err |-> "none", num |-> prev.num * (-x_m),
                   den |-> prev.den * (x_j - x_m)]

\* The same loop with num *= x_m: the sign of the numerator is lost.
RECURSIVE LagrangeLoopUnsigned(_, _, _)
LagrangeLoopUnsigned(shares, j, m) ==
    IF m = 0 THEN [err |-> "none", num |-> 1, den |-> 1]
    ELSE LET prev == LagrangeLoopUnsigned(shares, j, m - 1)
             x_j == shares[j][1]
             x_m == shares[m][1]
         IN  IF prev.err # "none" \/ m = j THEN prev
             ELSE IF x_m = x_j THEN [err |-> "ValueError", num |-> 0, den |-> 0]
             ELSE [err |-> "none", num |-> prev.num * x_m,
                   den |-> prev.den * (x_j - x_m)]

lagrange_basis_Unsigned(shares, j, prime) ==
    LET b == LagrangeLoopUnsigned(shares, j, Len(shares))
    IN  IF b.err # "none" \/ prime = NoPrime THEN b
        ELSE [b EXCEPT !.num = b.num % prime, !.den = b.den % prime]

lagrange_basis(shares, j, prime) ==
    LET b == LagrangeLoop(shares, j, Len(shares))
    IN  IF b.err # "none" \/ prime = NoPrime THEN b
        ELSE [b EXCEPT !.num = b.num % prime, !.den = b.den % prime]

\* The inner loop of share (lines 94-96): the sum of a_k * i^k over the
\* first k coefficients.
RECURSIVE EvalPoly(_, _, _)
EvalPoly(coeffs, i, k) ==
    IF k = 0 THEN [y |-> 0, xi |-> 1]
    ELSE LET prev == EvalPoly(coeffs, i, k - 1)
         IN  [y |-> prev.y + coeffs[k] * prev.xi, xi |-> prev.xi * i]

\* share with the update xi *= i left out: every share is the sum of the
\* coefficients.
share_NoPowers(secret, n, t, prime, random_coeffs) ==
    IF n < 1 THEN Raise("ValueError")
    ELSE IF t < 1 THEN Raise("ValueError")
    ELSE IF t >= n THEN Raise("ValueError")
    ELSE LET coeffs == <<secret>> \o random_coeffs
         IN  Ok([i \in 1..n |->
                   LET y == SumSeq(coeffs)
                   IN  <<i, IF prime # NoPrime THEN PyMod(y, prime) ELSE y>>])

\* random_coeffs are the t coefficients a_1 .. a_t drawn at lines 84-88.
share(secret, n, t, prime, random_coeffs) ==
    IF n < 1 THEN Raise("ValueError")
    ELSE IF t < 1 THEN Raise("ValueError")
    ELSE IF t >= n THEN Raise("ValueError")
    ELSE LET coeffs == <<secret>> \o random_coeffs
         IN  Ok([i \in 1..n |->
                   LET y == EvalPoly(coeffs, i, Len(coeffs)).y
                   IN  <<i, IF prime # NoPrime THEN PyMod(y, prime) ELSE y>>])

\* The modular loop of reconstruct (lines 149-153) over the first j shares.
RECURSIVE ModularSum(_, _, _)
ModularSum(subset, prime, j) ==
    IF j = 0 THEN [err |-> "none", secret |-> 0]
    ELSE LET prev == ModularSum(subset, prime, j - 1)
             b == lagrange_basis(subset, j, prime)
             den_inv == PowMod(b.den, prime - 2, prime)
         IN  IF prev.err # "none" THEN prev
             ELSE IF b.err # "none" THEN [err |-> b.err, secret |-> 0]
             ELSE [err |-> "none",
                   secret |-> PyMod(prev.secret
                                     + PyMod(subset[j][2] * b.num, prime) * den_inv,
                                    prime)]

\* The first integer loop of reconstruct (lines 161-165): the bases and
\* their common denominator.
RECURSIVE CommonDen(_, _)
CommonDen(subset, j) ==
    IF j = 0 THEN [err |-> "none", den |-> 1]
    ELSE LET prev == CommonDen(subset, j - 1)
             b == lagrange_basis(subset, j, NoPrime)
         IN  IF prev.err # "none" THEN prev
             ELSE IF b.err # "none" THEN [err |-> b.err, den |-> 0]
             ELSE [err |-> "none", den |-> prev.den * b.den]

\* The second integer loop of reconstruct (lines 167-171).
RECURSIVE Numerator(_, _, _)
Numerator(subset, common_den, j) ==
    IF j = 0 THEN 0
    ELSE LET b == lagrange_basis(subset, j, NoPrime)
         IN  Numerator(subset, common_den, j - 1)
               + subset[j][2] * b.num * PyFloorDiv(common_den, b.den)

Returned(v, path) == [err |-> "none", val |-> v, path |-> path]

Failed(e) == [err |-> e, val |-> 0, path |-> "raised"]

\* reconstruct over subset, the shares it uses.
ReconstructFrom(subset, prime) ==
    IF prime # NoPrime
    THEN LET m == ModularSum(subset, prime, Len(subset))
         IN  IF m.err # "none" THEN Failed(m.err)
             ELSE Returned(m.secret, "modular")
    ELSE LET d == CommonDen(subset, Len(subset))
         IN  IF d.err # "none" THEN Failed(d.err)
             ELSE LET numerator == Numerator(subset, d.den, Len(subset))
                  IN  IF PyMod(numerator, d.den) # 0
                      THEN Returned(RoundHalfEven(numerator, d.den), "rounded")
                      ELSE Returned(PyFloorDiv(numerator, d.den), "exact")

\* reconstruct interpolating through every share it is given.
reconstruct_AllShares(shares, t, prime) ==
    IF Len(shares) < t + 1 THEN Failed("ValueError")
    ELSE ReconstructFrom(shares, prime)

\* path tells which return statement produced the value: the modular one
\* (line 153), the exact division (line 177) or the rounding (line 176).
reconstruct(shares, t, prime) ==
    LET needed == t + 1
    IN  IF Len(shares) < needed THEN Failed("ValueError")
        ELSE ReconstructFrom(Take(shares, needed), prime)

(***************************************************************************)
(* Secret sharing's state machine: a dealer shares a secret, and a caller  *)
(* reconstructs from t + 1 of the shares.                                  *)
(***************************************************************************)

MaxSecret == 2
MaxN == 3
CoeffScale == 1
PrimeChoices == {3, 5}

\* coeff_bound of line 82, with CoeffScale in the place of 2**64.
CoeffBound(secret) == Max2(Abs(secret), 1) * CoeffScale

\* The values one coefficient can take: randbelow(coeff_bound) + 1, of
\* either sign.
CoeffValues(secret) ==
    {c \in (-CoeffBound(secret))..CoeffBound(secret) : c # 0}

\* The sequences of k distinct indices of the n shares.
Selections(n, k) ==
    {sel \in [1..k -> 1..n] : \A a, b \in 1..k : a # b => sel[a] # sel[b]}

IssIdle ==
    [phase |-> "idle", secret |-> 0, n |-> 0, t |-> 0, prime |-> NoPrime,
     coeffs |-> <<>>, shares |-> Ok(<<>>), supplied |-> <<>>,
     result |-> Returned(0, "none")]

IssInit ==
    \E s \in (-MaxSecret)..MaxSecret, n \in 1..MaxN, t \in 1..MaxN,
       p \in {NoPrime} \cup PrimeChoices :
         iss = [IssIdle EXCEPT !.phase = "input", !.secret = s, !.n = n,
                               !.t = t, !.prime = p]

\* The coefficients are drawn inside share, after its argument checks.
Share ==
    /\ iss.phase = "input"
    /\ \E cs \in IF iss.n < 1 \/ iss.t < 1 \/ iss.t >= iss.n
                 THEN {<<>>}
                 ELSE [1..iss.t -> CoeffValues(iss.secret)] :
         iss' = [iss EXCEPT
                   !.phase = "shared",
                   !.coeffs = cs,
                   !.shares = share(iss.secret, iss.n, iss.t, iss.prime, cs)]
    /\ UNCHANGED <<codec, prec, rec, tjl, thr, dlog,
                 comb, quant, srch>>

\* The caller passes any t + 1 of the shares, in any order.
Reconstruct ==
    /\ iss.phase = "shared"
    /\ iss.shares.err = "none"
    /\ \E sel \in Selections(iss.n, iss.t + 1) :
         LET supplied == [k \in 1..(iss.t + 1) |-> iss.shares.val[sel[k]]]
         IN  iss' = [iss EXCEPT
                       !.phase = "reconstructed",
                       !.supplied = supplied,
                       !.result = reconstruct(supplied, iss.t, iss.prime)]
    /\ UNCHANGED <<codec, prec, rec, tjl, thr, dlog,
                 comb, quant, srch>>


(***************************************************************************)
(* Claims about secret sharing                                             *)
(***************************************************************************)

\* The caller passed share(...)[:t+1].
SuppliedPrefix == iss.supplied = Take(iss.shares.val, iss.t + 1)

\* Integer mode, or modular mode with a prime above the number of shares.
IntegerOrValidPrime == iss.prime = NoPrime \/ iss.prime > iss.n

\* C2 as stated: for every integer secret, reconstructing from the first
\* t + 1 shares returns the secret, in integer mode and in modular mode.
C2_EverySecret ==
    (iss.phase = "reconstructed" /\ iss.n >= 2 /\ SuppliedPrefix
        /\ IntegerOrValidPrime)
        => (iss.result.err = "none" /\ iss.result.val = iss.secret)

\* C2 as amended: reconstructing from the first t + 1 shares returns the
\* secret in integer mode, and the secret reduced modulo the prime in
\* modular mode with a prime above n (so the secret itself exactly when it
\* lies in [0, prime)).
C2_SharingCorrect ==
    (iss.phase = "reconstructed" /\ iss.n >= 2 /\ SuppliedPrefix
        /\ IntegerOrValidPrime)
        => /\ iss.result.err = "none"
           /\ iss.prime = NoPrime => iss.result.val = iss.secret
           /\ iss.prime # NoPrime => iss.result.val = iss.secret % iss.prime
           /\ (0 <= iss.secret /\ iss.secret < iss.prime)
                 => iss.result.val = iss.secret

\* A secret shared three ways modulo 5 with threshold 2 was reconstructed
\* from the first three shares.
C2_Witness ==
    /\ iss.phase = "reconstructed"
    /\ iss.secret = 2 /\ iss.n = 3 /\ iss.t = 2 /\ iss.prime = 5
    /\ SuppliedPrefix
    /\ iss.result = Returned(2, "modular")

\* C9: in integer mode reconstruct applied to any t + 1 of the n shares, in
\* any order, returns exactly the secret, through the exact division.
C9_AnySharesExact ==
    (iss.phase = "reconstructed" /\ iss.prime = NoPrime)
        => iss.result = Returned(iss.secret, "exact")

\* A negative secret came back from the third and the first share, passed
\* in that order.
C9_Witness ==
    /\ iss.phase = "reconstructed"
    /\ iss.prime = NoPrime
    /\ iss.secret = -2 /\ iss.n = 3 /\ iss.t = 1
    /\ iss.coeffs = <<-1>>
    /\ iss.supplied = <<<<3, -5>>, <<1, -3>>>>
    /\ iss.result = Returned(-2, "exact")

(***************************************************************************)
(* reconstruct on share lists of the caller's making: too few shares,      *)
(* repeated x-coordinates, shares beyond the first t + 1.                  *)
(***************************************************************************)

MaxSupplied == 3
MaxX == 3
MaxY == 1
MaxT == 2

RecIdle ==
    [phase |-> "idle", supplied |-> <<>>, t |-> 0, prime |-> NoPrime,
     result |-> Returned(0, "none")]

RecInit ==
    \E len \in 0..MaxSupplied, t \in 1..MaxT,
       p \in {NoPrime} \cup PrimeChoices :
         \E sh \in [1..len -> (1..MaxX) \X (0..MaxY)] :
           rec = [RecIdle EXCEPT !.phase = "input", !.supplied = sh,
                                 !.t = t, !.prime = p]

ReconstructSupplied ==
    /\ rec.phase = "input"
    /\ rec' = [rec EXCEPT
                 !.phase = "reconstructed",
                 !.result = reconstruct(rec.supplied, rec.t, rec.prime)]
    /\ UNCHANGED <<codec, prec, iss, tjl, thr, dlog,
                 comb, quant, srch>>

\* Two of the first k shares have the same x-coordinate.
DuplicateX(shares, k) ==
    \E a, b \in 1..Min2(k, Len(shares)) : a # b /\ shares[a][1] = shares[b][1]

\* C10: reconstruct fails, returning no value, when fewer than t + 1 shares
\* are supplied or two of the first t + 1 have the same x-coordinate, and
\* in no other case; the shares beyond the first t + 1 are ignored: the
\* outcome is that of the call on the first t + 1 shares alone.
C10_ReconstructFailure ==
    rec.phase = "reconstructed" =>
        /\ (Len(rec.supplied) < rec.t + 1 \/ DuplicateX(rec.supplied, rec.t + 1))
              <=> rec.result = Failed("ValueError")
        /\ rec.result.err \in {"none", "ValueError"}
        /\ rec.result
              = reconstruct(Take(rec.supplied, rec.t + 1), rec.t, rec.prime)

\* A call with a repeated x-coordinate beyond the first t + 1 shares
\* returned a value.
C10_Witness ==
    /\ rec.phase = "reconstructed"
    /\ rec.t = 1
    /\ rec.supplied = <<<<1, 1>>, <<2, 0>>, <<2, 1>>>>
    /\ rec.prime = NoPrime
    /\ rec.result = Returned(2, "exact")

(***************************************************************************)
(* tjl.py: setup, protect, aggregate, share_protect, share_combine         *)
(*                                                                         *)
(* SAFE_PRIME_1024 is a small safe prime (5 = 2*2 + 1) in the place of the *)
(* 1024-bit one, and the default max_val of discrete_log_brute is scaled   *)
(* with it.  hash_to_group is a function the model does not compute: the   *)
(* value it has at a label is drawn, once, from HashValues.                *)
(***************************************************************************)

SAFE_PRIME_1024 == 5
DefaultMaxVal == 6

MaxHash == 3

\* The values hash_to_group(data, modulus) is given: a part of [0, modulus).
HashValues(modulus) == 0..Min2(MaxHash, modulus - 1)

\* setup, hash_h being hash_to_group(b"TJL-h-parameter", n_squared).
setup(hash_h) ==
    LET n == SAFE_PRIME_1024
        n_squared == n * n
    IN  [n |-> n, n_squared |-> n_squared, g |-> (1 + n) % n_squared,
         h |-> IF hash_h = 0 THEN 1 ELSE hash_h]

\* protect, r being hash_to_group(f"{client_id}||{round_num}", n_squared).
protect(params, value, r) ==
    LET gv == mod_pow(params.g, value, params.n_squared)
        hr == mod_pow(params.h, r, params.n_squared)
    IN  IF gv.err # "none" THEN gv
        ELSE IF hr.err # "none" THEN hr
        ELSE Ok((gv.val * hr.val) % params.n_squared)

\* The loop of aggregate (lines 120-122) over the first i ciphertexts.
RECURSIVE AggregateLoop(_, _, _)
AggregateLoop(params, ciphertexts, i) ==
    IF i = 0 THEN 1
    ELSE (AggregateLoop(params, ciphertexts, i - 1) * ciphertexts[i])
            % params.n_squared

\* aggregate starting from the first ciphertext instead of 1, and then
\* multiplying every ciphertext in.
aggregate_FromFirst(params, ciphertexts) ==
    IF ciphertexts = <<>> THEN Raise("ValueError")
    ELSE Ok((ciphertexts[1]
                * AggregateLoop(params, ciphertexts, Len(ciphertexts)))
              % params.n_squared)

aggregate(params, ciphertexts) ==
    IF ciphertexts = <<>> THEN Raise("ValueError")
    ELSE Ok(AggregateLoop(params, ciphertexts, Len(ciphertexts)))

share_protect(params, secret_key_share, aggregate_ct) ==
    mod_pow(aggregate_ct, secret_key_share, params.n_squared)

\* share_combine multiplying every supplied share, not the first threshold.
share_combine_AllShares(params, shares, threshold) ==
    IF Len(shares) < threshold THEN Raise("ValueError")
    ELSE LET combined == AggregateLoop(params, shares, Len(shares))
             numerator == (combined - 1) % params.n_squared
         IN  IF numerator % params.n # 0
             THEN discrete_log_brute(combined, params.g, params.n_squared,
                                     DefaultMaxVal)
             ELSE Ok((numerator \div params.n) % params.n)

share_combine(params, shares, threshold) ==
    IF Len(shares) < threshold THEN Raise("ValueError")
    ELSE LET combined == AggregateLoop(params, Take(shares, threshold), threshold)
             numerator == (combined - 1) % params.n_squared
         IN  IF numerator % params.n # 0
             THEN discrete_log_brute(combined, params.g, params.n_squared,
                                     DefaultMaxVal)
             ELSE Ok((numerator \div params.n) % params.n)

(***************************************************************************)
(* A round of protection and aggregation: setup, then clients protect      *)
(* their values, then the ciphertexts are aggregated.                      *)
(***************************************************************************)

MaxCts == 2
MaxValue == 2
Clients == {1, 2}
Rounds == {1}

TjlIdle ==
    [phase |-> "idle", params |-> setup(1), hash |-> <<>>, protected |-> <<>>,
     agg |-> Ok(0)]

TjlInit == tjl = TjlIdle

Setup ==
    /\ tjl.phase = "idle"
    /\ \E hash_h \in HashValues(SAFE_PRIME_1024 * SAFE_PRIME_1024) :
         tjl' = [tjl EXCEPT !.phase = "ready", !.params = setup(hash_h)]
    /\ UNCHANGED <<codec, prec, iss, rec, thr, dlog,
                 comb, quant, srch>>

\* The mask of a (client, round) pair met before is the one drawn then.
MaskOf(hash, label, r) ==
    IF \E k \in 1..Len(hash) : hash[k].label = label
    THEN \E k \in 1..Len(hash) : hash[k].label = label /\ hash[k].r = r
    ELSE r \in HashValues(SAFE_PRIME_1024 * SAFE_PRIME_1024)

Protect ==
    /\ tjl.phase = "ready"
    /\ Len(tjl.protected) < MaxCts
    /\ \E value \in (-MaxValue)..MaxValue, client_id \in Clients,
          round_num \in Rounds,
          r \in HashValues(SAFE_PRIME_1024 * SAFE_PRIME_1024) :
         LET label == <<client_id, round_num>>
             known == \E k \in 1..Len(tjl.hash) : tjl.hash[k].label = label
             c == protect(tjl.params, value, r)
         IN  /\ MaskOf(tjl.hash, label, r)
             /\ c.err = "none"
             /\ tjl' = [tjl EXCEPT
                          !.hash = IF known THEN @
                                   ELSE Append(@, [label |-> label, r |-> r]),
                          !.protected =
                              Append(@, [value |-> value, client_id |-> client_id,
                                         round_num |-> round_num, r |-> r,
                                         ct |-> c.val])]
    /\ UNCHANGED <<codec, prec, iss, rec, thr, dlog,
                 comb, quant, srch>>

Ciphertexts(protected) == [k \in 1..Len(protected) |-> protected[k].ct]

Aggregate ==
    /\ tjl.phase = "ready"
    /\ tjl' = [tjl EXCEPT
                 !.phase = "aggregated",
                 !.agg = aggregate(tjl.params, Ciphertexts(tjl.protected))]
    /\ UNCHANGED <<codec, prec, iss, rec, thr, dlog,
                 comb, quant, srch>>

(***************************************************************************)
(* Claims about protection and aggregation                                 *)
(***************************************************************************)

SumValues(protected) == SumSeq([k \in 1..Len(protected) |-> protected[k].value])

SumMasks(protected) == SumSeq([k \in 1..Len(protected) |-> protected[k].r])

\* C4: every ciphertext and the aggregate of a non-empty list lie in
\* [0, n^2), and the aggregate is congruent modulo n^2 to
\* g^(sum of values) * h^(sum of masks); for a negative sum s of the values
\* that is: the aggregate times g^(-s) is congruent to h^(sum of masks).
C4_Homomorphism ==
    (tjl.phase = "aggregated" /\ tjl.protected # <<>>) =>
        LET P == tjl.params
            sv == SumValues(tjl.protected)
            hr == PowMod(P.h, SumMasks(tjl.protected), P.n_squared)
        IN  /\ tjl.agg.err = "none"
            /\ 0 <= tjl.agg.val /\ tjl.agg.val < P.n_squared
            /\ \A k \in 1..Len(tjl.protected) :
                  0 <= tjl.protected[k].ct /\ tjl.protected[k].ct < P.n_squared
            /\ IF sv >= 0
               THEN tjl.agg.val = (PowMod(P.g, sv, P.n_squared) * hr) % P.n_squared
               ELSE (tjl.agg.val * PowMod(P.g, -sv, P.n_squared)) % P.n_squared = hr

\* Two values of opposite sign, from two clients with non-zero masks, were
\* aggregated.
C4_Witness ==
    /\ tjl.phase = "aggregated"
    /\ tjl.params.h = 2
    /\ Len(tjl.protected) = 2
    /\ tjl.protected[1].value = -2 /\ tjl.protected[1].r = 3
    /\ tjl.protected[2].value = 1 /\ tjl.protected[2].r = 1
    /\ tjl.protected[1].client_id # tjl.protected[2].client_id
    /\ tjl.agg.err = "none"

Orderings(n) ==
    {p \in [1..n -> 1..n] : \A a, b \in 1..n : a # b => p[a] # p[b]}

\* The results of every reduction of a list of ciphertexts: one call of
\* aggregate on the list, or on the results of reducing consecutive blocks
\* of it.  Blocks(cts) is every list of such block results, a block of one
\* ciphertext being the ciphertext itself.
RECURSIVE Reductions(_, _), Blocks(_, _)
Reductions(params, cts) ==
    {aggregate(params, f).val : f \in Blocks(params, cts)}

Blocks(params, cts) ==
    IF cts = <<>> THEN {<<>>}
    ELSE UNION {
           {<<x>> \o f :
              x \in IF k = 1 THEN {cts[1]}
                    ELSE IF k < Len(cts)
                         THEN Reductions(params, SubSeq(cts, 1, k))
                         ELSE {},
              f \in Blocks(params, SubSeq(cts, k + 1, Len(cts)))}
           : k \in 1..Len(cts)}

MaxPlain == 2
MaxKey == 3
KeyHolders == 3
RoundNum == 1

ThrIdle ==
    [phase |-> "idle", params |-> setup(1), protected |-> <<>>, agg |-> Ok(0),
     key |-> 0, t |-> 0, coeffs |-> <<>>, key_shares |-> <<>>,
     partials |-> <<>>, threshold |-> 0, result |-> Ok(0)]

ThrInit == thr = ThrIdle

ThrSetup ==
    /\ thr.phase = "idle"
    /\ \E hash_h \in HashValues(SAFE_PRIME_1024 * SAFE_PRIME_1024) :
         thr' = [thr EXCEPT !.phase = "ready", !.params = setup(hash_h)]
    /\ UNCHANGED <<codec, prec, iss, rec, tjl, dlog,
                 comb, quant, srch>>

\* Client 1, then client 2, protect a value in round RoundNum.
ThrProtect ==
    /\ thr.phase = "ready"
    /\ Len(thr.protected) < 2
    /\ \E value \in 0..MaxPlain,
          r \in HashValues(SAFE_PRIME_1024 * SAFE_PRIME_1024) :
         LET c == protect(thr.params, value, r)
         IN  /\ c.err = "none"
             /\ thr' = [thr EXCEPT
                          !.protected =
                              Append(@, [value |-> value,
                                         client_id |-> Len(thr.protected) + 1,
                                         round_num |-> RoundNum, r |-> r,
                                         ct |-> c.val])]
    /\ UNCHANGED <<codec, prec, iss, rec, tjl, dlog,
                 comb, quant, srch>>

ThrAggregate ==
    /\ thr.phase = "ready"
    /\ Len(thr.protected) = 2
    /\ thr' = [thr EXCEPT
                 !.phase = "aggregated",
                 !.agg = aggregate(thr.params, Ciphertexts(thr.protected))]
    /\ UNCHANGED <<codec, prec, iss, rec, tjl, dlog,
                 comb, quant, srch>>

\* One ISS sharing of a secret key among the key-holders.
DealKey ==
    /\ thr.phase = "aggregated"
    /\ thr.agg.err = "none"
    /\ \E key \in 0..MaxKey, t \in 1..(KeyHolders - 1) :
         \E cs \in [1..t -> CoeffValues(key)] :
           LET dealt == share(key, KeyHolders, t, NoPrime, cs)
           IN  /\ dealt.err = "none"
               /\ thr' = [thr EXCEPT !.phase = "dealt", !.key = key, !.t = t,
                                     !.coeffs = cs, !.key_shares = dealt.val]
    /\ UNCHANGED <<codec, prec, iss, rec, tjl, dlog,
                 comb, quant, srch>>

\* The next key-holder computes its partial share of the aggregate.
SharePartial ==
    /\ thr.phase = "dealt"
    /\ Len(thr.partials) < Len(thr.key_shares)
    /\ LET i == Len(thr.partials) + 1
           d == share_protect(thr.params, thr.key_shares[i][2], thr.agg.val)
       IN  /\ d.err = "none"
           /\ thr' = [thr EXCEPT !.partials = Append(@, d.val)]
    /\ UNCHANGED <<codec, prec, iss, rec, tjl, dlog,
                 comb, quant, srch>>

\* The partial shares computed so far are combined, with the threshold the
\* number of shares ISS reconstruction needs (t + 1) or the degree t.
Combine ==
    /\ thr.phase = "dealt"
    /\ \E threshold \in {thr.t, thr.t + 1} :
         thr' = [thr EXCEPT
                   !.phase = "combined",
                   !.threshold = threshold,
                   !.result = share_combine(thr.params, thr.partials, threshold)]
    /\ UNCHANGED <<codec, prec, iss, rec, tjl, dlog,
                 comb, quant, srch>>

\* The product share_combine forms of the first threshold partial shares.
Combined ==
    AggregateLoop(thr.params, Take(thr.partials, thr.threshold), thr.threshold)

\* The division of the L-function is exact.
ExactDivision ==
    ((Combined - 1) % thr.params.n_squared) % thr.params.n = 0

\* The secret key decrypts the aggregate by itself: the L-function of
\* agg^key mod n^2 is v1 + v2.
KeyDecrypts ==
    LET P == thr.params
        d == mod_pow(thr.agg.val, thr.key, P.n_squared)
    IN  /\ d.err = "none"
        /\ ((d.val - 1) % P.n_squared) % P.n = 0
        /\ (((d.val - 1) % P.n_squared) \div P.n) % P.n
             = thr.protected[1].value + thr.protected[2].value

\* C3: when threshold partial shares of the same aggregate, computed from
\* the shares of one ISS sharing of the secret key, are combined and the
\* division of the L-function is exact, share_combine returns v1 + v2.
\* Stated for the case most favourable to it: the key decrypts the
\* aggregate, and the threshold is the t + 1 shares that determine the key.
C3_ThresholdRecoversSum ==
    (thr.phase = "combined" /\ thr.threshold = thr.t + 1
        /\ Len(thr.partials) >= thr.threshold
        /\ KeyDecrypts /\ ExactDivision)
        => thr.result = Ok(thr.protected[1].value + thr.protected[2].value)

(***************************************************************************)
(* The discrete logarithm of a power: mod_pow, then discrete_log_brute.    *)
(***************************************************************************)

MaxModulus == 11
MaxSearch == 3

DlogIdle ==
    [phase |-> "idle", base |-> 0, modulus |-> 1, max_val |-> 0, x |-> 0,
     target |-> Ok(0), result |-> Ok(0)]

DlogInit ==
    \E modulus \in 1..MaxModulus, base \in 0..MaxModulus, max_val \in 0..MaxSearch :
      \E x \in (-max_val)..max_val :
        dlog = [DlogIdle EXCEPT !.phase = "input", !.base = base,
                                !.modulus = modulus, !.max_val = max_val,
                                !.x = x]

ModPow ==
    /\ dlog.phase = "input"
    /\ dlog' = [dlog EXCEPT
                  !.phase = "powered",
                  !.target = mod_pow(dlog.base, dlog.x, dlog.modulus)]
    /\ UNCHANGED <<codec, prec, iss, rec, tjl, thr,
                 comb, quant, srch>>

DiscreteLog ==
    /\ dlog.phase = "powered"
    /\ dlog.target.err = "none"
    /\ dlog' = [dlog EXCEPT
                  !.phase = "searched",
                  !.result = discrete_log_brute(dlog.target.val, dlog.base,
                                                dlog.modulus, dlog.max_val)]
    /\ UNCHANGED <<codec, prec, iss, rec, tjl, thr,
                 comb, quant, srch>>

Invertible(base, modulus) ==
    \E c \in 0..(modulus - 1) : (base * c) % modulus = 1 % modulus

\* The multiplicative order of base modulo modulus is above k: no power
\* base^j, 1 <= j <= k, is 1.
OrderAbove(base, modulus, k) ==
    \A j \in 1..k : PowMod(base, j, modulus) # 1 % modulus

MaxShares == 3
MaxShare == 11
MaxThreshold == 3

CombIdle ==
    [phase |-> "idle", params |-> setup(1), shares |-> <<>>, threshold |-> 0,
     result |-> Ok(0)]

\* threshold is a number of shares: it is not negative.
CombInit ==
    \E hash_h \in HashValues(SAFE_PRIME_1024 * SAFE_PRIME_1024),
       len \in 0..MaxShares, threshold \in 0..MaxThreshold :
         \E sh \in [1..len -> 0..MaxShare] :
           comb = [CombIdle EXCEPT !.phase = "input",
                                   !.params = setup(hash_h),
                                   !.shares = sh, !.threshold = threshold]

CombineShares ==
    /\ comb.phase = "input"
    /\ comb' = [comb EXCEPT
                  !.phase = "combined",
                  !.result = share_combine(comb.params, comb.shares,
                                           comb.threshold)]
    /\ UNCHANGED <<codec, prec, iss, rec, tjl, thr, dlog, quant, srch>>

\* The product of the integers of s.
RECURSIVE ProdSeq(_)
ProdSeq(s) == IF s = <<>> THEN 1 ELSE Head(s) * ProdSeq(Tail(s))

\* C11: share_combine fails when fewer than threshold shares are supplied.
\* Otherwise, combined being the product of the first threshold shares
\* modulo n^2, it returns ((combined - 1) mod n^2) / n reduced modulo n when
\* that division is exact, and the result of discrete_log_brute of combined
\* against g modulo n^2 in every other case; the shares after the first
\* threshold change nothing.
C11_CombineDualPath ==
    comb.phase = "combined" =>
        LET P == comb.params
            first == SubSeq(comb.shares, 1, comb.threshold)
            combined == ProdSeq(first) % P.n_squared
            numerator == (combined - 1) % P.n_squared
        IN  IF Len(comb.shares) < comb.threshold
            THEN comb.result.err = "ValueError"
            ELSE /\ \/ /\ numerator % P.n = 0
                       /\ comb.result = Ok((numerator \div P.n) % P.n)
                    \/ /\ numerator % P.n # 0
                       /\ comb.result = discrete_log_brute(combined, P.g,
                                            P.n_squared, DefaultMaxVal)
                 /\ comb.result = share_combine(P, first, comb.threshold)

\* Three shares were supplied for a threshold of two; the first two
\* multiply to 6 * 11 = 66 = 16 modulo 25, the L-function gives 3, and the
\* third share is not used.
C11_Witness ==
    /\ comb.phase = "combined"
    /\ comb.shares = <<6, 11, 7>>
    /\ comb.threshold = 2
    /\ comb.result = Ok(3)

(***************************************************************************)
(* encoding.py: quantize_value and dequantize_value                        *)
(*                                                                         *)
(* value and scale are binary floating-point numbers.  A float is a record *)
(* [m, e] standing for m * 2^e, with a mantissa of MantBits bits (53 in    *)
(* the code's doubles): m = 0, or 2^(MantBits-1) <= |m| < 2^MantBits.      *)
(* Every operation returns the float nearest to its exact result, a tie    *)
(* going to the even mantissa.  Exponents are not limited: overflow and    *)
(* subnormal numbers are not modelled.                                     *)
(***************************************************************************)

MantBits == 3

\* |a| * 2^sh / |b| as a fraction of integers <<numerator, denominator>>.
Shifted(a, b, sh) ==
    <<Abs(a) * Pow2(Max2(sh, 0)), Abs(b) * Pow2(Max2(-sh, 0))>>

\* The shift sh that brings |a / b| * 2^sh into [2^(MantBits-1), 2^MantBits).
RECURSIVE MantissaShift(_, _, _)
MantissaShift(a, b, sh) ==
    LET f == Shifted(a, b, sh)
    IN  IF f[1] >= Pow2(MantBits) * f[2] THEN MantissaShift(a, b, sh - 1)
        ELSE IF f[1] < Pow2(MantBits - 1) * f[2] THEN MantissaShift(a, b, sh + 1)
        ELSE sh

\* The float nearest to (a / b) * 2^k, b # 0.
FloatOf(a, b, k) ==
    IF a = 0 THEN [m |-> 0, e |-> 0]
    ELSE LET sh == MantissaShift(a, b, 0)
             m == RoundHalfEven(a * Pow2(Max2(sh, 0)), b * Pow2(Max2(-sh, 0)))
         IN  IF Abs(m) = Pow2(MantBits)
             THEN [m |-> m \div 2, e |-> k - sh + 1]
             ELSE [m |-> m, e |-> k - sh]

\* x / y and x * y on floats, and float(n) of an integer.
FloatDiv(x, y) == FloatOf(x.m, y.m, x.e - y.e)

FloatMul(x, y) == FloatOf(x.m * y.m, 1, x.e + y.e)

FloatOfInt(n) == FloatOf(n, 1, 0)

\* Python's comparison of a float with an integer is exact: x < n, x > n.
FloatLess(x, n) ==
    IF x.e >= 0 THEN x.m * Pow2(x.e) < n ELSE x.m < n * Pow2(-x.e)

FloatGreater(x, n) ==
    IF x.e >= 0 THEN x.m * Pow2(x.e) > n ELSE x.m > n * Pow2(-x.e)

\* int(round(x)) of a float: the nearest integer, a tie going to the even.
RoundFloat(x) ==
    IF x.e >= 0 THEN x.m * Pow2(x.e) ELSE RoundHalfEven(x.m, Pow2(-x.e))

\* quantize_value rounding toward zero instead of to the nearest integer.
quantize_value_Truncate(value, bits, scale) ==
    IF bits < 1 THEN Raise("ValueError")
    ELSE IF scale.m = 0 THEN Raise("ValueError")
    ELSE LET max_val == Pow2(bits - 1) - 1
             min_val == -Pow2(bits - 1)
             scaled == FloatDiv(value, scale)
         IN  IF ~FloatLess(scaled, max_val) THEN Ok(max_val)
             ELSE IF ~FloatGreater(scaled, min_val) THEN Ok(min_val)
             ELSE IF scaled.e >= 0 THEN Ok(scaled.m * Pow2(scaled.e))
             ELSE IF scaled.m >= 0
                  THEN Ok(scaled.m \div Pow2(-scaled.e))
                  ELSE Ok(-((-scaled.m) \div Pow2(-scaled.e)))

\* min(max_val, scaled) is max_val unless scaled < max_val, and
\* max(min_val, x) is min_val unless x > min_val (line 89).
quantize_value(value, bits, scale) ==
    IF bits < 1 THEN Raise("ValueError")
    ELSE IF scale.m = 0 THEN Raise("ValueError")
    ELSE LET max_val == Pow2(bits - 1) - 1
             min_val == -Pow2(bits - 1)
             scaled == FloatDiv(value, scale)
         IN  IF ~FloatLess(scaled, max_val) THEN Ok(max_val)
             ELSE IF ~FloatGreater(scaled, min_val) THEN Ok(min_val)
             ELSE Ok(RoundFloat(scaled))

dequantize_value(value, bits, scale) ==
    IF bits < 1 THEN Raise("ValueError")
    ELSE IF scale.m = 0 THEN Raise("ValueError")
    ELSE Ok(FloatMul(FloatOfInt(value), scale))

MaxQBits == 5
MaxExp == 2
MinExpDepth == 4

\* The floats with an exponent in -MinExpDepth..MaxExp, and zero.
Floats ==
    {[m |-> 0, e |-> 0]} \cup
    {[m |-> sg * m, e |-> e] :
        sg \in {-1, 1}, m \in Pow2(MantBits - 1)..(Pow2(MantBits) - 1),
        e \in (-MinExpDepth)..MaxExp}

QuantIdle ==
    [phase |-> "idle", value |-> [m |-> 0, e |-> 0],
     scale |-> [m |-> Pow2(MantBits - 1), e |-> 1 - MantBits], bits |-> 1,
     q |-> Ok(0), result |-> Ok([m |-> 0, e |-> 0])]

QuantInit ==
    \E value \in Floats, scale \in Floats, bits \in 0..MaxQBits :
        quant = [QuantIdle EXCEPT !.phase = "input", !.value = value,
                                  !.scale = scale, !.bits = bits]

Quantize ==
    /\ quant.phase = "input"
    /\ quant' = [quant EXCEPT
                   !.phase = "quantized",
                   !.q = quantize_value(quant.value, quant.bits, quant.scale)]
    /\ UNCHANGED <<codec, prec, iss, rec, tjl, thr, dlog, comb, srch>>

Dequantize ==
    /\ quant.phase = "quantized"
    /\ quant.q.err = "none"
    /\ quant' = [quant EXCEPT
                   !.phase = "dequantized",
                   !.result = dequantize_value(quant.q.val, quant.bits,
                                               quant.scale)]
    /\ UNCHANGED <<codec, prec, iss, rec, tjl, thr, dlog, comb, srch>>

\* The least exponent among value, scale and the dequantized result, and
\* a float as an integer multiple of 2 to that exponent.
LeastExp ==
    Min2(quant.value.e, Min2(quant.scale.e, quant.result.val.e))

Units(x) == x.m * Pow2(x.e - LeastExp)

\* value / scale, exactly, lies in the representable range of bits.
Representable ==
    LET v == quant.value
        sc == quant.scale
        lo == Min2(v.e, sc.e)
        V == v.m * Pow2(v.e - lo)
        S == sc.m * Pow2(sc.e - lo)
    IN  /\ quant.bits >= 1 /\ sc.m # 0
        /\ IF S > 0
           THEN /\ -Pow2(quant.bits - 1) * S <= V
                /\ V <= (Pow2(quant.bits - 1) - 1) * S
           ELSE /\ -Pow2(quant.bits - 1) * S >= V
                /\ V >= (Pow2(quant.bits - 1) - 1) * S

\* C12 as stated: for every bits >= 1, every non-zero scale and every value
\* whose quotient value / scale lies in the representable range, the
\* dequantized quantization of value lies within scale / 2 of value.
\* Stated for the positive scales, where scale / 2 is a distance.
C12_WithinHalfScale ==
    (quant.phase \in {"quantized", "dequantized"} /\ Representable
        /\ quant.scale.m > 0)
        => /\ quant.q.err = "none"
           /\ quant.phase = "dequantized" =>
                /\ quant.result.err = "none"
                /\ 2 * Abs(Units(quant.result.val) - Units(quant.value))
                     <= Units(quant.scale)

\* C12 as amended: the dequantized quantization of value lies within
\* |scale| / 2 + 2^(-MantBits) * (|value| + |q * scale|) of value, q being
\* the quantized integer: half a step of the grid, plus the rounding of the
\* division and of the multiplication.
C12_QuantizationRoundTrip ==
    (quant.phase \in {"quantized", "dequantized"} /\ Representable)
        => /\ quant.q.err = "none"
           /\ quant.phase = "dequantized" =>
                /\ quant.result.err = "none"
                /\ Pow2(MantBits + 1)
                     * Abs(Units(quant.result.val) - Units(quant.value))
                     <= Pow2(MantBits) * Abs(Units(quant.scale))
                        + 2 * (Abs(Units(quant.value))
                               + Abs(quant.q.val) * Abs(Units(quant.scale)))

\* 10 / 7 is rounded to the float 1.5, which is quantized to 2 and
\* dequantized to 14: further than 7 / 2 from 10, and within the bound
\* that counts the two roundings.
C12_Witness ==
    /\ quant.phase = "dequantized"
    /\ quant.value = [m |-> 5, e |-> 1]
    /\ quant.scale = [m |-> 7, e |-> 0]
    /\ quant.bits = 3
    /\ quant.q = Ok(2)
    /\ quant.result = Ok([m |-> 7, e |-> 1])

(***************************************************************************)
(* discrete_log_brute on arbitrary targets.                                *)
(***************************************************************************)

SrchIdle ==
    [phase |-> "idle", target |-> 0, base |-> 0, modulus |-> 1,
     max_val |-> 0, result |-> Ok(0), raised |-> "none"]

SrchInit ==
    \E modulus \in 1..MaxModulus, base \in 0..MaxModulus,
       target \in (-1)..MaxModulus, max_val \in 0..MaxSearch :
        srch = [SrchIdle EXCEPT !.phase = "input", !.target = target,
                                !.base = base, !.modulus = modulus,
                                !.max_val = max_val]

Search ==
    /\ srch.phase = "input"
    /\ srch' = [srch EXCEPT
                  !.phase = "searched",
                  !.result = discrete_log_brute(srch.target, srch.base,
                                                srch.modulus, srch.max_val),
                  !.raised = discrete_log_raise(srch.target, srch.base,
                                                srch.modulus, srch.max_val)]
    /\ UNCHANGED <<codec, prec, iss, rec, tjl, thr, dlog, comb, quant>>

\* base^x is congruent to target modulo modulus; for x < 0 the power is
\* that of the inverse of base, and there is none when base has no inverse.
IsLog(x, base, target, modulus) ==
    IF x >= 0 THEN PowMod(base, x, modulus) = target % modulus
    ELSE \E c \in 0..(modulus - 1) :
            /\ (base * c) % modulus = 1 % modulus
            /\ PowMod(c, -x, modulus) = target % modulus

\* The exponents of [-max_val, max_val] that solve the searched congruence.
Solutions ==
    {x \in (-srch.max_val)..srch.max_val :
        IsLog(x, srch.base, srch.target, srch.modulus)}

\* What C13 says of a returned value: it is a solution within the range,
\* and a non-negative one whenever there is a non-negative solution.
ReturnsSolution ==
    /\ srch.result.err = "none" <=> srch.raised = "none"
    /\ srch.result.err = "none" => srch.result.val \in Solutions
    /\ (\E x \in Solutions : x >= 0)
          => srch.result.err = "none" /\ srch.result.val >= 0

InitCodec ==
    /\ CodecInit
    /\ prec = PrecIdle /\ iss = IssIdle /\ rec = RecIdle
    /\ tjl = TjlIdle /\ thr = ThrIdle /\ dlog = DlogIdle
    /\ comb = CombIdle /\ quant = QuantIdle /\ srch = SrchIdle

NextCodec == Pack \/ Unpack

SpecCodec == InitCodec /\ [][NextCodec]_vars

InitPrecision ==
    /\ PrecInit
    /\ codec = CodecIdle /\ iss = IssIdle /\ rec = RecIdle
    /\ tjl = TjlIdle /\ thr = ThrIdle /\ dlog = DlogIdle
    /\ comb = CombIdle /\ quant = QuantIdle /\ srch = SrchIdle

NextPrecision == MapPrecision

SpecPrecision == InitPrecision /\ [][NextPrecision]_vars

InitISS ==
    /\ IssInit
    /\ codec = CodecIdle /\ prec = PrecIdle /\ rec = RecIdle
    /\ tjl = TjlIdle /\ thr = ThrIdle /\ dlog = DlogIdle
    /\ comb = CombIdle /\ quant = QuantIdle /\ srch = SrchIdle

NextISS == Share \/ Reconstruct

SpecISS == InitISS /\ [][NextISS]_vars

InitReconstruct ==
    /\ RecInit
    /\ codec = CodecIdle /\ prec = PrecIdle /\ iss = IssIdle
    /\ tjl = TjlIdle /\ thr = ThrIdle /\ dlog = DlogIdle
    /\ comb = CombIdle /\ quant = QuantIdle /\ srch = SrchIdle

NextReconstruct == ReconstructSupplied

SpecReconstruct == InitReconstruct /\ [][NextReconstruct]_vars

InitTJL ==
    /\ TjlInit
    /\ codec = CodecIdle /\ prec = PrecIdle /\ iss = IssIdle
    /\ rec = RecIdle /\ thr = ThrIdle /\ dlog = DlogIdle
    /\ comb = CombIdle /\ quant = QuantIdle /\ srch = SrchIdle

NextTJL == Setup \/ Protect \/ Aggregate

SpecTJL == InitTJL /\ [][NextTJL]_vars

InitThreshold ==
    /\ ThrInit
    /\ codec = CodecIdle /\ prec = PrecIdle /\ iss = IssIdle
    /\ rec = RecIdle /\ tjl = TjlIdle /\ dlog = DlogIdle
    /\ comb = CombIdle /\ quant = QuantIdle /\ srch = SrchIdle

NextThreshold ==
    ThrSetup \/ ThrProtect \/ ThrAggregate \/ DealKey \/ SharePartial \/ Combine

SpecThreshold == InitThreshold /\ [][NextThreshold]_vars

InitDlog ==
    /\ DlogInit
    /\ codec = CodecIdle /\ prec = PrecIdle /\ iss = IssIdle
    /\ rec = RecIdle /\ tjl = TjlIdle /\ thr = ThrIdle
    /\ comb = CombIdle /\ quant = QuantIdle /\ srch = SrchIdle

NextDlog == ModPow \/ DiscreteLog

SpecDlog == InitDlog /\ [][NextDlog]_vars

InitCombine ==
    /\ CombInit
    /\ codec = CodecIdle /\ prec = PrecIdle /\ iss = IssIdle
    /\ rec = RecIdle /\ tjl = TjlIdle /\ thr = ThrIdle /\ dlog = DlogIdle
    /\ quant = QuantIdle /\ srch = SrchIdle

NextCombine == CombineShares

SpecCombine == InitCombine /\ [][NextCombine]_vars

InitQuantize ==
    /\ QuantInit
    /\ codec = CodecIdle /\ prec = PrecIdle /\ iss = IssIdle
    /\ rec = RecIdle /\ tjl = TjlIdle /\ thr = ThrIdle /\ dlog = DlogIdle
    /\ comb = CombIdle /\ srch = SrchIdle

NextQuantize == Quantize \/ Dequantize

SpecQuantize == InitQuantize /\ [][NextQuantize]_vars

InitSearch ==
    /\ SrchInit
    /\ codec = CodecIdle /\ prec = PrecIdle /\ iss = IssIdle
    /\ rec = RecIdle /\ tjl = TjlIdle /\ thr = ThrIdle /\ dlog = DlogIdle
    /\ comb = CombIdle /\ quant = QuantIdle

NextSearch == Search

SpecSearch == InitSearch /\ [][NextSearch]_vars

(***************************************************************************)
(* The library as a whole: any of the components' runs.                    *)
(***************************************************************************)

Init ==
    /\ codec = CodecIdle \/ CodecInit
    /\ prec = PrecIdle \/ PrecInit
    /\ iss = IssIdle \/ IssInit
    /\ rec = RecIdle \/ RecInit
    /\ tjl = TjlIdle
    /\ thr = ThrIdle
    /\ dlog = DlogIdle \/ DlogInit
    /\ comb = CombIdle \/ CombInit
    /\ quant = QuantIdle \/ QuantInit
    /\ srch = SrchIdle \/ SrchInit

Next ==
    \/ NextCodec \/ NextPrecision \/ NextISS \/ NextReconstruct
    \/ NextTJL \/ NextThreshold \/ NextDlog
    \/ NextCombine \/ NextQuantize \/ NextSearch

Spec == Init /\ [][Next]_vars

=============================================================================
